---------------------------- MODULE Spec2Model ----------------------------
(***************************************************************************)
(* Model of gumbel.py: the rainfall work-flow separar_dados_por_ano (read  *)
(* the sheet, check its columns, extract the year, ask for a selection of  *)
(* years, aggregate per year, run analise_recorrencia, export the          *)
(* workbook) and the numeric steps of analise_recorrencia.                 *)
(*                                                                         *)
(* Numbers.  Rainfall totals are integers (mm).  The mean and the variance *)
(* are exact rationals <<num, den>>.  The plotting positions and the       *)
(* empirical return periods are IEEE-754 binary64 values, computed with    *)
(* round-to-nearest-even exactly as numpy computes them: a value is a      *)
(* record [e, hi, lo] standing for (hi * 2^26 + lo) * 2^e with a 53 bit    *)
(* mantissa, 2^52 <= hi * 2^26 + lo < 2^53.  Gumbel quantiles are in       *)
(* thousandths of a millimetre.                                            *)
(***************************************************************************)
EXTENDS Integers, Sequences, FiniteSets, TLC

(***************************************************************************)
(* Bounds of the model.                                                    *)
(***************************************************************************)
\* rows of a generated input sheet
MaxObs == 3
\* characters of a generated answer to the selection prompt
MaxSel == 2
\* annual totals handed to analise_recorrencia in SpecAnalise
MaxN == 4

(***************************************************************************)
(* IEEE-754 binary64 arithmetic on positive values.                        *)
(***************************************************************************)
Limb == 2^26

\* a two-limb natural number <<hi, lo>>, lo < Limb
BigGeq(x, y) == x[1] > y[1] \/ (x[1] = y[1] /\ x[2] >= y[2])

BigSub(x, y) ==
    IF x[2] >= y[2] THEN <<x[1] - y[1], x[2] - y[2]>>
    ELSE <<x[1] - y[1] - 1, x[2] + Limb - y[2]>>

BigDouble(x) ==
    IF 2 * x[2] >= Limb THEN <<2 * x[1] + 1, 2 * x[2] - Limb>>
    ELSE <<2 * x[1], 2 * x[2]>>

BigInc(x) == IF x[2] + 1 = Limb THEN <<x[1] + 1, 0>> ELSE <<x[1], x[2] + 1>>

BigOfInt(k) == <<k \div Limb, k % Limb>>

\* the mantissa 2^52 and the bound 2^53
MantMin == <<Limb, 0>>
MantTop == <<2 * Limb, 0>>

\* Long division: q holds the quotient bits produced so far, r the
\* remainder (r < d); `bits` more bits are produced.
RECURSIVE DivBits(_, _, _, _)
DivBits(q, r, d, bits) ==
    IF bits = 0 THEN <<q, r>>
    ELSE LET r2 == BigDouble(r)
             q2 == BigDouble(q)
         IN  IF BigGeq(r2, d) THEN DivBits(BigInc(q2), BigSub(r2, d), d, bits - 1)
             ELSE DivBits(q2, r2, d, bits - 1)

\* Round to nearest, ties to even: mantissa q (53 bits), `up` says the
\* discarded part is above one half, `tie` that it is exactly one half.
RoundMant(q, e, up, tie) ==
    LET bump == up \/ (tie /\ q[2] % 2 = 1)
        q1   == IF bump THEN BigInc(q) ELSE q
    IN  IF q1 = MantTop THEN [e |-> e + 1, hi |-> MantMin[1], lo |-> 0]
        ELSE [e |-> e, hi |-> q1[1], lo |-> q1[2]]

\* 13 more quotient bits from the pair qr = <<quotient, remainder>>
DivBits13(qr, d) == DivBits(qr[1], qr[2], d, 13)

\* fl(num / den) * 2^e0 for two-limb num, den with den <= num < 2 * den:
\* the leading quotient bit is 1 and 52 more bits follow
DivNorm(num, den, e0) ==
    LET qr == DivBits13(DivBits13(DivBits13(DivBits13(
                  <<BigOfInt(1), BigSub(num, den)>>, den), den), den), den)
        r2 == BigDouble(qr[2])
    IN  RoundMant(qr[1], e0 - 52, BigGeq(r2, den) /\ r2 # den, r2 = den)

RECURSIVE ShiftUp(_, _)
\* the least s with a * 2^s >= b
ShiftUp(a, b) == IF a >= b THEN 0 ELSE 1 + ShiftUp(2 * a, b)

\* fl(a / b) for integers a, b >= 1 (true division of two int64 values)
FloatDivInt(a, b) ==
    IF a >= b
    THEN LET t == ShiftUp(b, a) - (IF b * 2^ShiftUp(b, a) > a THEN 1 ELSE 0)
         IN  DivNorm(BigOfInt(a), BigOfInt(b * 2^t), t)
    ELSE LET s == ShiftUp(a, b)
         IN  DivNorm(BigOfInt(a * 2^s), BigOfInt(b), 0 - s)

\* fl(1 / x) for a binary64 x
FloatRecip(x) ==
    IF <<x.hi, x.lo>> = MantMin
    THEN [e |-> 0 - x.e - 104, hi |-> MantMin[1], lo |-> 0]
    ELSE DivNorm(MantTop, <<x.hi, x.lo>>, 0 - x.e - 53)

RECURSIVE BitsOver(_)
\* how many bits the first limb of a product exceeds a 53 bit mantissa by
BitsOver(hi) == IF hi < 2 * Limb THEN 0 ELSE 1 + BitsOver(hi \div 2)

\* fl(x * c) for a binary64 x and an integer c >= 1
FloatMulInt(x, c) ==
    LET plo == x.lo * c
        phi == x.hi * c + (plo \div Limb)
        lo  == plo % Limb
        k   == BitsOver(phi)
        p   == 2^k
        rem == lo % p
        q   == <<phi \div p, (lo \div p) + (phi % p) * (Limb \div p)>>
    IN  IF k = 0 THEN [e |-> x.e, hi |-> phi, lo |-> lo]
        ELSE RoundMant(q, x.e + k, 2 * rem > p, 2 * rem = p)

\* a bound on the distance that UlpDist reports when the limbs differ widely
FarApart == Limb

\* distance between two positive binary64 values in units in the last place
UlpDist(a, b) ==
    LET lodiff(x, y) == (x.hi - y.hi) * Limb + (x.lo - y.lo)
    IN  IF a.e = b.e
        THEN IF a.hi - b.hi > 1 \/ b.hi - a.hi > 1 THEN FarApart
             ELSE IF lodiff(a, b) >= 0 THEN lodiff(a, b) ELSE lodiff(b, a)
        ELSE IF a.e = b.e + 1 /\ a.hi = Limb /\ b.hi = 2 * Limb - 1
        THEN a.lo + (Limb - b.lo)
        ELSE IF b.e = a.e + 1 /\ b.hi = Limb /\ a.hi = 2 * Limb - 1
        THEN b.lo + (Limb - a.lo)
        ELSE FarApart

\* a < b for two positive binary64 values
FloatLess(a, b) ==
    a.e < b.e \/ (a.e = b.e /\ ~BigGeq(<<a.hi, a.lo>>, <<b.hi, b.lo>>))

\* the binary64 value of a small positive integer
FloatOfInt(k) == FloatDivInt(k, 1)


(***************************************************************************)
(* Text: a string is a sequence of one-character strings.                  *)
(***************************************************************************)
Alfabeto == {"0", "1", "2", "-", ",", " ", "x"}

Digitos == {"0", "1", "2", "3", "4", "5", "6", "7", "8", "9"}

DigitVal(c) ==
    CASE c = "0" -> 0 [] c = "1" -> 1 [] c = "2" -> 2 [] c = "3" -> 3
      [] c = "4" -> 4 [] c = "5" -> 5 [] c = "6" -> 6 [] c = "7" -> 7
      [] c = "8" -> 8 [] c = "9" -> 9

RECURSIVE LStrip(_)
LStrip(s) == IF s # <<>> /\ Head(s) = " " THEN LStrip(Tail(s)) ELSE s

RECURSIVE RStrip(_)
RStrip(s) ==
    IF s # <<>> /\ s[Len(s)] = " " THEN RStrip(SubSeq(s, 1, Len(s) - 1)) ELSE s

\* str.strip()
Strip(s) == RStrip(LStrip(s))

LowerChar(c) ==
    CASE c = "T" -> "t" [] c = "O" -> "o" [] c = "D" -> "d" [] c = "S" -> "s"
      [] OTHER -> c

\* str.lower()
Lower(s) == [i \in 1..Len(s) |-> LowerChar(s[i])]

Todos == <<"t", "o", "d", "o", "s">>

RECURSIVE SplitAt(_, _, _)
\* str.split(sep): `campo` is the field being read
SplitAt(s, sep, campo) ==
    IF s = <<>> THEN <<campo>>
    ELSE IF Head(s) = sep THEN <<campo>> \o SplitAt(Tail(s), sep, <<>>)
    ELSE SplitAt(Tail(s), sep, Append(campo, Head(s)))

Split(s, sep) == SplitAt(s, sep, <<>>)

RECURSIVE DigitsVal(_, _)
DigitsVal(s, acc) ==
    IF s = <<>> THEN acc ELSE DigitsVal(Tail(s), 10 * acc + DigitVal(Head(s)))

\* int(text): surrounding blanks, an optional sign, then one or more
\* digits; anything else is a ValueError
PyInt(text) ==
    LET t    == Strip(text)
        neg  == t # <<>> /\ Head(t) = "-"
        body == IF t # <<>> /\ Head(t) \in {"-", "+"} THEN Tail(t) ELSE t
    IN  IF body = <<>> \/ \E i \in 1..Len(body) : body[i] \notin Digitos
        THEN [ok |-> FALSE, val |-> 0]
        ELSE [ok |-> TRUE,
              val |-> IF neg THEN 0 - DigitsVal(body, 0) ELSE DigitsVal(body, 0)]

(***************************************************************************)
(* Sequences of integers.                                                  *)
(***************************************************************************)
RECURSIVE Insert(_, _)
Insert(x, s) ==
    IF s = <<>> THEN <<x>>
    ELSE IF x <= Head(s) THEN <<x>> \o s
    ELSE <<Head(s)>> \o Insert(x, Tail(s))

RECURSIVE Sort(_)
\* np.sort / sorted on a sequence: ascending
Sort(s) == IF s = <<>> THEN <<>> ELSE Insert(Head(s), Sort(Tail(s)))

RECURSIVE SortedSet(_)
\* sorted(...) of a set of distinct integers
SortedSet(S) ==
    IF S = {} THEN <<>>
    ELSE LET lo == CHOOSE x \in S : \A y \in S : x <= y
         IN  <<lo>> \o SortedSet(S \ {lo})

\* a[::-1]
Reverse(s) == [i \in 1..Len(s) |-> s[Len(s) + 1 - i]]

RECURSIVE Sum(_)
Sum(s) == IF s = <<>> THEN 0 ELSE Head(s) + Sum(Tail(s))

(***************************************************************************)
(* The input sheet 'Dados'.  A cell of the column Data is a date (year and *)
(* month) or text that is no date; a cell of Total is a rainfall amount.   *)
(***************************************************************************)
DataDe(a, mm) == [valida |-> TRUE, ano |-> a, mes |-> mm]

DataInvalida == [valida |-> FALSE, ano |-> 0, mes |-> 0]

Anos == {2020, 2021}

Totais == {0, 10}

Linhas == ([Data : {DataDe(a, 1) : a \in Anos}, Total : Totais])
              \cup {[Data |-> DataInvalida, Total |-> 0]}

Linha(a, mm, t) == [Data |-> DataDe(a, mm), Total |-> t]

\* sheets taken from the documentation's examples
ExemploPlanilhas ==
    { <<Linha(2020, 1, 10), Linha(2020, 2, 20), Linha(2021, 1, 5)>>,
      <<Linha(2021, 3, 7), Linha(2019, 1, 15), Linha(2020, 6, 30), Linha(2019, 2, 1)>> }

Planilhas == (UNION {[1..k -> Linhas] : k \in 1..MaxObs}) \cup ExemploPlanilhas

\* answers to the selection prompt
ExemploSelecoes ==
    { <<"t", "o", "d", "o", "s">>, <<" ", "T", "o", "d", "o", "s">>,
      <<"1", ",", "2">>, <<" ", "2", " ", ",", "1">>, <<"3", ",", "1", ",", "3">>,
      <<"1", ",", "0">>, <<"-", "1", ",", "1">>, <<"1", ".", "0">> }

Selecoes == (UNION {[1..k -> Alfabeto] : k \in 0..MaxSel}) \cup ExemploSelecoes

(***************************************************************************)
(* selecionar_anos                                                         *)
(***************************************************************************)
\* dados['Ano'].dropna().unique(); every row has a year here, because
\* pd.to_datetime raised before on a cell that is no date
AnosDisponiveis(linhas) == {linhas[i].Ano : i \in 1..Len(linhas)}

\* seq[i] of Python for a 0-based i: negative i counts from the end
PyIndexOk(s, i) == 0 - Len(s) <= i /\ i < Len(s)

PyIndex(s, i) == IF i >= 0 THEN s[i + 1] ELSE s[Len(s) + i + 1]

\* dados[dados['Ano'].isin(anos)]
FiltrarAnos(linhas, anos) == SelectSeq(linhas, LAMBDA r : r.Ano \in anos)

IndiceSemAjuste(v) == v

\* int(i.strip()) - 1: the 0-based index of the entry numbered v
Indice(v) == v - 1

\* the body of selecionar_anos for the answer `resposta` of input()
selecionar_anos(linhas, resposta) ==
    LET selecao  == Strip(resposta)
        ordenados == SortedSet(AnosDisponiveis(linhas))
        campos   == Split(selecao, ",")
        lidos    == [i \in 1..Len(campos) |-> PyInt(Strip(campos[i]))]
        indices  == [i \in 1..Len(campos) |-> Indice(lidos[i].val)]
    IN  IF Lower(selecao) = Todos
        THEN [linhas |-> linhas, aviso |-> "nenhum"]
        ELSE IF \E i \in 1..Len(campos) : ~lidos[i].ok
        THEN [linhas |-> linhas, aviso |-> "invalida"]
        ELSE IF \E i \in 1..Len(campos) : ~PyIndexOk(ordenados, indices[i])
        THEN [linhas |-> linhas, aviso |-> "invalida"]
        ELSE [linhas |->
                FiltrarAnos(linhas,
                    {PyIndex(ordenados, indices[i]) : i \in 1..Len(campos)}),
              aviso |-> "selecionados"]

(***************************************************************************)
(* The annual summary: groupby('Ano').agg(sum, max, count)                 *)
(***************************************************************************)
Maior(a, b) == IF a >= b THEN a ELSE b

RECURSIVE AgruparSemSoma(_, _)
AgruparSemSoma(linhas, acc) ==
    IF linhas = <<>> THEN acc
    ELSE LET r == Head(linhas)
         IN  AgruparSemSoma(Tail(linhas),
                IF r.Ano \in DOMAIN acc
                THEN [acc EXCEPT ![r.Ano] =
                        [soma |-> r.Total,
                         maximo |-> Maior(@.maximo, r.Total),
                         n |-> @.n + 1]]
                ELSE acc @@ (r.Ano :> [soma |-> r.Total, maximo |-> r.Total, n |-> 1]))

RECURSIVE Agrupar(_, _)
\* one pass over the rows; acc maps a year to its running sum, max, count
Agrupar(linhas, acc) ==
    IF linhas = <<>> THEN acc
    ELSE LET r == Head(linhas)
         IN  Agrupar(Tail(linhas),
                IF r.Ano \in DOMAIN acc
                THEN [acc EXCEPT ![r.Ano] =
                        [soma |-> @.soma + r.Total,
                         maximo |-> Maior(@.maximo, r.Total),
                         n |-> @.n + 1]]
                ELSE acc @@ (r.Ano :> [soma |-> r.Total, maximo |-> r.Total, n |-> 1]))

CriarResumo(linhas) ==
    LET g    == Agrupar(linhas, <<>>)
        anos == SortedSet(DOMAIN g)
    IN  [i \in 1..Len(anos) |->
            [Ano |-> anos[i],
             TotalAnual |-> g[anos[i]].soma,
             ChuvaMaxima |-> g[anos[i]].maximo,
             MesesComDados |-> g[anos[i]].n]]

(***************************************************************************)
(* analise_recorrencia: the numeric steps                                  *)
(***************************************************************************)
\* np.mean: the exact rational sum / n
Media(x) == <<Sum(x), Len(x)>>

\* n^2 times the sum of the squared deviations from the mean
SomaQuadDesvios(x) ==
    Sum([i \in 1..Len(x) |-> (Len(x) * x[i] - Sum(x)) * (Len(x) * x[i] - Sum(x))])

\* np.std(x, ddof): the value is given by its square, the rational
\* quad = sum |x - mean|^2 / (n - ddof); with n - ddof <= 0 numpy divides
\* 0 by 0 and the value is NaN (a warning, no exception)
Std(x, ddof) ==
    IF Len(x) - ddof <= 0 THEN [nan |-> TRUE, quad |-> <<0, 1>>]
    ELSE [nan |-> FALSE,
          quad |-> <<SomaQuadDesvios(x), Len(x) * Len(x) * (Len(x) - ddof)>>]

DesvioPadraoPopulacional(x) == Std(x, 0)

DesvioPadrao(x) == Std(x, 1)

\* np.sort(totais_anuais)[::-1]
TotaisOrdenados(x) == Reverse(Sort(x))

TEmpiricoSemMaisUm(n) == [mm \in 1..n |-> FloatRecip(FloatDivInt(mm, n))]

\* P = m / (n + 1) and T_empirico = 1 / P, element by element in binary64
TEmpirico(n) == [mm \in 1..n |-> FloatRecip(FloatDivInt(mm, n + 1))]

\* scipy's gumbel_r.fit is not part of the repository and the source puts no
\* condition on its argument or its result.  The model leaves its result
\* open: the call raises, or it returns a location within the data and a
\* scale, which is positive when the data vary; when they do not (one
\* value, or all values equal) the likelihood has no interior maximum and
\* the returned scale may also be 0.
Menor(a, b) == IF a <= b THEN a ELSE b

RECURSIVE MaxSeq(_)
MaxSeq(x) == IF Len(x) = 1 THEN x[1] ELSE Maior(Head(x), MaxSeq(Tail(x)))

RECURSIVE MinSeq(_)
MinSeq(x) == IF Len(x) = 1 THEN x[1] ELSE Menor(Head(x), MinSeq(Tail(x)))

Degenerado(x) == Len(x) < 2 \/ \A i \in 1..Len(x) : x[i] = x[1]

GumbelFit(x) ==
    {[ok |-> FALSE, loc |-> 0, scale |-> 0]} \cup
    [ok : {TRUE},
     loc : {MinSeq(x), Sum(x) \div Len(x)},
     scale : IF Degenerado(x) THEN {0, 1} ELSE {1, MaxSeq(x) - MinSeq(x)}]

T_alvo == <<2, 5, 10, 25, 50, 100, 1000, 10000>>

\* P_alvo = 1 / T_alvo, a rational <<num, den>>
PAlvo(T) == <<1, T>>

Identidade(p) == p

\* 1 - p
Complemento(p) == <<p[2] - p[1], p[2]>>

\* -ln(-ln q) in thousandths, rounded to nearest, at the probabilities
\* 1 - 1/T and 1/T of the target return periods
VariavelReduzida(q) ==
    CASE q = <<1, 2>> -> 367
      [] q = <<4, 5>> -> 1500
      [] q = <<9, 10>> -> 2250
      [] q = <<24, 25>> -> 3199
      [] q = <<49, 50>> -> 3902
      [] q = <<99, 100>> -> 4600
      [] q = <<999, 1000>> -> 6907
      [] q = <<9999, 10000>> -> 9210
      [] q = <<1, 5>> -> 0 - 476
      [] q = <<1, 10>> -> 0 - 834
      [] q = <<1, 25>> -> 0 - 1169
      [] q = <<1, 50>> -> 0 - 1364
      [] q = <<1, 100>> -> 0 - 1527
      [] q = <<1, 1000>> -> 0 - 1933
      [] q = <<1, 10000>> -> 0 - 2220

\* gumbel_r.ppf(q, loc, scale) = loc - scale * ln(-ln q), in thousandths
GumbelPpf(q, loc, scale) == 1000 * loc + scale * VariavelReduzida(q)

\* Q_T = gumbel_r.ppf(1 - P_alvo, loc=loc, scale=scale)
QT(loc, scale) ==
    [i \in 1..Len(T_alvo) |-> GumbelPpf(Complemento(PAlvo(T_alvo[i])), loc, scale)]

(***************************************************************************)
(* The export step                                                         *)
(***************************************************************************)
Coluna(tabela, campo) == [i \in 1..Len(tabela) |-> tabela[i][campo]]

ColunaSemMaisUm(n) == [mm \in 1..n |-> FloatMulInt(FloatDivInt(1, mm), n)]

\* 1 / np.arange(1, len(resumo) + 1) * (len(resumo) + 1), in binary64
ColunaTEmpirico(n) == [mm \in 1..n |-> FloatMulInt(FloatDivInt(1, mm), n + 1)]

AbasPorAno(linhas) ==
    LET anos == SortedSet(AnosDisponiveis(linhas))
    IN  [i \in 1..Len(anos) |->
            [nome |-> ToString(anos[i]),
             conteudo |-> <<[j \in 1..Len(FiltrarAnos(linhas, {anos[i]})) |->
                              [Data |-> FiltrarAnos(linhas, {anos[i]})[j].Data,
                               Total |-> FiltrarAnos(linhas, {anos[i]})[j].Total]]>>]]

\* the sheets of the output workbook, in the order they are written
Abas(res, resumo_, linhas) ==
    << [nome |-> "Resumo Anual", conteudo |-> <<resumo_>>],
       [nome |-> "Estatisticas",
        conteudo |-> <<res.media, res.desvio_padrao, res.n_amostras,
                       res.parametros_gumbel>>],
       [nome |-> "Analise Recorrencia",
        conteudo |-> <<res.tempos_recorrencia, res.totais_estimados>>],
       [nome |-> "Dados para Analise",
        conteudo |-> <<Coluna(resumo_, "Ano"),
                       Coluna(resumo_, "TotalAnual"),
                       Reverse(Sort(Coluna(resumo_, "TotalAnual"))),
                       ColunaTEmpirico(Len(resumo_))>>] >>
    \o AbasPorAno(linhas)

(***************************************************************************)
(* State                                                                   *)
(***************************************************************************)
VARIABLES
    pc,               \* the place reached in separar_dados_por_ano
    arquivo,          \* the sheet 'Dados' of the input file
    dados,            \* the DataFrame read from it
    prompts,          \* calls of input() made so far
    selecao,          \* the answer typed at the selection prompt
    aviso,            \* what selecionar_anos printed about the selection
    dados_filtrados,  \* the rows selecionar_anos returned
    resumo,           \* the annual summary
    totais_anuais,    \* the argument of analise_recorrencia
    media, desvio_padrao, totais_ordenados, T_empirico, parametros, Q_T,
    graficos,         \* the image files saved so far, with what they show
    resultados,       \* <<>> or the dictionary analise_recorrencia returned
    workbook,         \* the sheets written to the output file
    retorno,          \* "nenhum", or what separar_dados_por_ano returned
    erro              \* the cause printed by the except clause

vars == <<pc, arquivo, dados, prompts, selecao, aviso, dados_filtrados, resumo,
          totais_anuais, media, desvio_padrao, totais_ordenados, T_empirico,
          parametros, Q_T, graficos, resultados, workbook, retorno, erro>>

varsSelecao == <<prompts, selecao, aviso, dados_filtrados>>

varsAnalise == <<totais_anuais, media, desvio_padrao, totais_ordenados,
                 T_empirico, parametros, Q_T>>

varsSaida == <<graficos, resultados, workbook>>

SemDados == [colunas |-> {}, linhas |-> <<>>]

SemDesvio == [nan |-> FALSE, quad |-> <<0, 1>>]

SemParametros == [loc |-> 0, scale |-> 0]

\* everything but pc, arquivo and dados before the run starts
NadaFeito ==
    /\ prompts = 0 /\ selecao = <<>> /\ aviso = "nenhum" /\ dados_filtrados = <<>>
    /\ resumo = <<>> /\ totais_anuais = <<>>
    /\ media = <<0, 1>> /\ desvio_padrao = SemDesvio
    /\ totais_ordenados = <<>> /\ T_empirico = <<>>
    /\ parametros = SemParametros /\ Q_T = <<>>
    /\ graficos = <<>> /\ resultados = <<>> /\ workbook = <<>>
    /\ retorno = "nenhum" /\ erro = ""

\* The input file: any subset of the two required columns and any sheet of
\* rows; the cells of a column the sheet lacks are never read.
Init ==
    /\ pc = "inicio"
    /\ arquivo \in [colunas : SUBSET {"Data", "Total"}, linhas : Planilhas]
    /\ dados = SemDados
    /\ NadaFeito

(***************************************************************************)
(* separar_dados_por_ano.  Its whole body is inside try ... except          *)
(* Exception: a step that raises prints the cause and returns False.       *)
(***************************************************************************)
\* except Exception as e: print(...); return False
Excecao(causa) ==
    /\ pc' = "fim"
    /\ retorno' = "False"
    /\ erro' = causa

\* pd.read_excel(arquivo_entrada, sheet_name='Dados')
LerDados ==
    /\ pc = "inicio"
    /\ pc' = "lido"
    /\ dados' = arquivo
    /\ UNCHANGED <<arquivo, varsSelecao, resumo, varsAnalise, varsSaida, retorno, erro>>

\* the file or its sheet 'Dados' cannot be read
LerDadosFalha ==
    /\ pc = "inicio"
    /\ Excecao("leitura")
    /\ UNCHANGED <<arquivo, dados, varsSelecao, resumo, varsAnalise, varsSaida>>

ColunasFaltandoAmbas(colunas) == "Data" \notin colunas /\ "Total" \notin colunas

\* 'Data' not in dados.columns or 'Total' not in dados.columns
ColunasFaltando(colunas) == "Data" \notin colunas \/ "Total" \notin colunas

VerificarColunas ==
    /\ pc = "lido"
    /\ IF ColunasFaltando(dados.colunas)
       THEN Excecao("O arquivo deve conter colunas 'Data' e 'Total'")
       ELSE pc' = "colunas" /\ UNCHANGED <<retorno, erro>>
    /\ UNCHANGED <<arquivo, dados, varsSelecao, resumo, varsAnalise, varsSaida>>

\* dados['Ano'] = pd.to_datetime(dados['Data']).dt.year
ExtrairAno ==
    /\ pc = "colunas"
    /\ IF "Data" \notin dados.colunas
       THEN Excecao("KeyError: 'Data'") /\ UNCHANGED dados
       ELSE IF \E i \in 1..Len(dados.linhas) : ~dados.linhas[i].Data.valida
       THEN Excecao("data invalida") /\ UNCHANGED dados
       ELSE /\ pc' = "ano"
            /\ dados' = [colunas |-> dados.colunas \cup {"Ano"},
                         linhas |-> [i \in 1..Len(dados.linhas) |->
                                        [Data |-> dados.linhas[i].Data,
                                         Total |-> dados.linhas[i].Total,
                                         Ano |-> dados.linhas[i].Data.ano]]]
            /\ UNCHANGED <<retorno, erro>>
    /\ UNCHANGED <<arquivo, varsSelecao, resumo, varsAnalise, varsSaida>>

\* dados_filtrados = selecionar_anos(dados), the user typing `resposta`
SelecionarAnos ==
    /\ pc = "ano"
    /\ \E resposta \in Selecoes :
          LET r == selecionar_anos(dados.linhas, resposta)
          IN  /\ selecao' = resposta
              /\ aviso' = r.aviso
              /\ dados_filtrados' = r.linhas
    /\ prompts' = prompts + 1
    /\ pc' = "selecionado"
    /\ UNCHANGED <<arquivo, dados, resumo, varsAnalise, varsSaida, retorno, erro>>

\* input() raises EOFError: no answer can be read
SelecionarAnosFalha ==
    /\ pc = "ano"
    /\ prompts' = prompts + 1
    /\ Excecao("EOFError")
    /\ UNCHANGED <<arquivo, dados, selecao, aviso, dados_filtrados, resumo,
                   varsAnalise, varsSaida>>

\* resumo = dados_filtrados.groupby('Ano').agg(...).reset_index()
ResumoAnual ==
    /\ pc = "selecionado"
    /\ IF "Total" \notin dados.colunas
       THEN Excecao("KeyError: 'Total'") /\ UNCHANGED resumo
       ELSE /\ pc' = "resumido"
            /\ resumo' = CriarResumo(dados_filtrados)
            /\ UNCHANGED <<retorno, erro>>
    /\ UNCHANGED <<arquivo, dados, varsSelecao, varsAnalise, varsSaida>>

(***************************************************************************)
(* analise_recorrencia(resumo['Total Anual (mm)'].values, 'recorrencia_'). *)
(* The answer typed at the prompt, a local of selecionar_anos that the     *)
(* model keeps while the summary is built, is dropped on entry.            *)
(***************************************************************************)
Estatisticas ==
    /\ pc = "resumido"
    /\ pc' = "estatisticas"
    /\ totais_anuais' = Coluna(resumo, "TotalAnual")
    /\ media' = Media(totais_anuais')
    /\ desvio_padrao' = DesvioPadrao(totais_anuais')
    /\ selecao' = <<>>
    /\ UNCHANGED <<arquivo, dados, prompts, aviso, dados_filtrados, resumo,
                   totais_ordenados, T_empirico, parametros, Q_T, varsSaida,
                   retorno, erro>>

Ordenacao ==
    /\ pc = "estatisticas"
    /\ pc' = "ordenado"
    /\ totais_ordenados' = TotaisOrdenados(totais_anuais)
    /\ T_empirico' = TEmpirico(Len(totais_anuais))
    /\ UNCHANGED <<arquivo, dados, varsSelecao, resumo, totais_anuais, media,
                   desvio_padrao, parametros, Q_T, varsSaida, retorno, erro>>

\* loc, scale = gumbel_r.fit(totais_anuais)
Ajuste ==
    /\ pc = "ordenado"
    /\ \E r \in GumbelFit(totais_anuais) :
          /\ r.ok
          /\ parametros' = [loc |-> r.loc, scale |-> r.scale]
    /\ pc' = "ajustado"
    /\ UNCHANGED <<arquivo, dados, varsSelecao, resumo, totais_anuais, media,
                   desvio_padrao, totais_ordenados, T_empirico, Q_T, varsSaida,
                   retorno, erro>>

AjusteFalha ==
    /\ pc = "ordenado"
    /\ \E r \in GumbelFit(totais_anuais) : ~r.ok
    /\ Excecao("ajuste")
    /\ UNCHANGED <<arquivo, dados, varsSelecao, resumo, varsAnalise, varsSaida>>

Recorrencia ==
    /\ pc = "ajustado"
    /\ pc' = "estimado"
    /\ Q_T' = QT(parametros.loc, parametros.scale)
    /\ UNCHANGED <<arquivo, dados, varsSelecao, resumo, totais_anuais, media,
                   desvio_padrao, totais_ordenados, T_empirico, parametros,
                   varsSaida, retorno, erro>>

\* plt.savefig(f'{output_prefix}grafico_recorrencia.png')
GraficoRecorrencia ==
    /\ pc = "estimado"
    /\ pc' = "grafico"
    /\ graficos' = Append(graficos,
                      [arquivo |-> "recorrencia_grafico_recorrencia.png",
                       x_empirico |-> T_empirico, y_empirico |-> totais_ordenados,
                       x_gumbel |-> T_alvo, y_gumbel |-> Q_T])
    /\ UNCHANGED <<arquivo, dados, varsSelecao, resumo, varsAnalise, resultados,
                   workbook, retorno, erro>>

GraficoFalha ==
    /\ pc = "estimado"
    /\ Excecao("grafico")
    /\ UNCHANGED <<arquivo, dados, varsSelecao, resumo, varsAnalise, varsSaida>>

TabelaNaoSalva == graficos

\* plt.savefig(f'{output_prefix}tabela_recorrencia.png'): the saved files
ComTabela ==
    Append(graficos,
        [arquivo |-> "recorrencia_tabela_recorrencia.png",
         x_empirico |-> <<>>, y_empirico |-> <<>>,
         x_gumbel |-> T_alvo, y_gumbel |-> Q_T])

TabelaRecorrencia ==
    /\ pc = "grafico"
    /\ pc' = "tabela"
    /\ graficos' = ComTabela
    /\ UNCHANGED <<arquivo, dados, varsSelecao, resumo, varsAnalise, resultados,
                   workbook, retorno, erro>>

TabelaFalha ==
    /\ pc = "grafico"
    /\ Excecao("tabela")
    /\ UNCHANGED <<arquivo, dados, varsSelecao, resumo, varsAnalise, varsSaida>>

\* the dictionary returned; the locals of analise_recorrencia are gone
RetornarResultados ==
    /\ pc = "tabela"
    /\ pc' = "analisado"
    /\ resultados' = << [media |-> media,
                         desvio_padrao |-> desvio_padrao,
                         n_amostras |-> Len(totais_anuais),
                         parametros_gumbel |-> parametros,
                         tempos_recorrencia |-> T_alvo,
                         totais_estimados |-> Q_T,
                         totais_observados |-> totais_anuais] >>
    /\ totais_anuais' = <<>> /\ media' = <<0, 1>> /\ desvio_padrao' = SemDesvio
    /\ totais_ordenados' = <<>> /\ T_empirico' = <<>>
    /\ parametros' = SemParametros /\ Q_T' = <<>>
    /\ UNCHANGED <<arquivo, dados, varsSelecao, resumo, graficos, workbook,
                   retorno, erro>>

\* with pd.ExcelWriter(arquivo_saida) as writer: every sheet is written
Exportar ==
    /\ pc = "analisado"
    /\ pc' = "exportado"
    /\ workbook' = Abas(resultados[1], resumo, dados_filtrados)
    /\ UNCHANGED <<arquivo, dados, varsSelecao, resumo, varsAnalise, graficos,
                   resultados, retorno, erro>>

\* a write raises after k sheets; leaving the with block closes the writer,
\* which saves the sheets written so far
ExportarFalha ==
    /\ pc = "analisado"
    /\ \E k \in 0..Len(Abas(resultados[1], resumo, dados_filtrados)) :
          workbook' = SubSeq(Abas(resultados[1], resumo, dados_filtrados), 1, k)
    /\ Excecao("exportacao")
    /\ UNCHANGED <<arquivo, dados, varsSelecao, resumo, varsAnalise, graficos,
                   resultados>>

\* the closing messages and return True
Retornar ==
    /\ pc = "exportado"
    /\ pc' = "fim"
    /\ retorno' = "True"
    /\ UNCHANGED <<arquivo, dados, varsSelecao, resumo, varsAnalise, varsSaida, erro>>

NextAnalise ==
    \/ Estatisticas \/ Ordenacao \/ Ajuste \/ AjusteFalha \/ Recorrencia
    \/ GraficoRecorrencia \/ GraficoFalha \/ TabelaRecorrencia \/ TabelaFalha
    \/ RetornarResultados \/ Exportar \/ ExportarFalha \/ Retornar

Next ==
    \/ LerDados \/ LerDadosFalha \/ VerificarColunas \/ ExtrairAno
    \/ SelecionarAnos \/ SelecionarAnosFalha \/ ResumoAnual
    \/ NextAnalise

Spec == Init /\ [][Next]_vars

(***************************************************************************)
(* analise_recorrencia and the export on their own: the run is taken up at *)
(* the annual summary of a sheet that holds one observation per year, all  *)
(* years selected.                                                         *)
(***************************************************************************)
ValoresAnuais == {100, 150, 300}

ExemploTotais == { <<100, 200, 300>>, <<1000, 1200, 900, 1500, 1100>> }

TotaisAnalise ==
    (UNION {[1..k -> ValoresAnuais] : k \in 1..MaxN}) \cup ExemploTotais

PlanilhaAnual(t) == [i \in 1..Len(t) |-> Linha(2000 + i, 1, t[i])]

InitAnalise ==
    /\ pc = "resumido"
    /\ \E t \in TotaisAnalise :
          /\ arquivo = [colunas |-> {"Data", "Total"}, linhas |-> PlanilhaAnual(t)]
          /\ dados = [colunas |-> {"Data", "Total", "Ano"},
                      linhas |-> [i \in 1..Len(t) |->
                                     [Data |-> DataDe(2000 + i, 1), Total |-> t[i],
                                      Ano |-> 2000 + i]]]
    /\ prompts = 1 /\ selecao = Todos /\ aviso = "nenhum"
    /\ dados_filtrados = dados.linhas
    /\ resumo = CriarResumo(dados_filtrados)
    /\ totais_anuais = <<>>
    /\ media = <<0, 1>> /\ desvio_padrao = SemDesvio
    /\ totais_ordenados = <<>> /\ T_empirico = <<>>
    /\ parametros = SemParametros /\ Q_T = <<>>
    /\ graficos = <<>> /\ resultados = <<>> /\ workbook = <<>>
    /\ retorno = "nenhum" /\ erro = ""

SpecAnalise == InitAnalise /\ [][NextAnalise]_vars

(***************************************************************************)
(* Properties                                                              *)
(***************************************************************************)
\* the answer is a comma-separated list of integers, each in 1..k
SelecaoValida(s, k) ==
    LET campos == Split(Strip(s), ",")
    IN  \A i \in 1..Len(campos) :
           PyInt(campos[i]).ok /\ PyInt(campos[i]).val \in 1..k

EhTodos(s) == Lower(Strip(s)) = Todos

\* the years a valid answer names: the i-th smallest available year for
\* each entry i
AnosEscolhidos(s, linhas) ==
    LET ord    == SortedSet(AnosDisponiveis(linhas))
        campos == Split(Strip(s), ",")
    IN  {ord[PyInt(campos[i]).val] : i \in 1..Len(campos)}

AnosDoResumo == {resumo[i].Ano : i \in 1..Len(resumo)}

\* C1: every answer other than 'todos' that is not a comma-separated list
\* of integers in 1..k (an entry 0 or negative included) makes
\* selecionar_anos return the full, unfiltered data.
C1_InvalidSelectionFallsBack ==
    (/\ pc = "selecionado"
     /\ ~EhTodos(selecao)
     /\ ~SelecaoValida(selecao, Cardinality(AnosDisponiveis(dados.linhas))))
        => dados_filtrados = dados.linhas

\* C2: analise_recorrencia returns no result dictionary for degenerate
\* annual totals (fewer than two values, or no variance).
C2_DegenerateFitRejected ==
    resultados # <<>> => ~Degenerado(resultados[1].totais_observados)

LinhasDoAno(linhas, a) == SelectSeq(linhas, LAMBDA r : r.Ano = a)

\* C3: the annual summary has exactly one record per distinct year of the
\* aggregated observations, with the sum, the maximum and the number of
\* that year's observations; so count >= 1 and total >= maximum >= 0.
C3_AnnualAggregation ==
    pc \notin {"inicio", "lido", "colunas", "ano", "selecionado", "fim"} =>
        /\ AnosDoResumo = AnosDisponiveis(dados_filtrados)
        /\ Len(resumo) = Cardinality(AnosDisponiveis(dados_filtrados))
        /\ \A i \in 1..Len(resumo) :
              LET obs == Coluna(LinhasDoAno(dados_filtrados, resumo[i].Ano), "Total")
              IN  /\ resumo[i].TotalAnual = Sum(obs)
                  /\ \E j \in 1..Len(obs) : resumo[i].ChuvaMaxima = obs[j]
                  /\ \A j \in 1..Len(obs) : obs[j] <= resumo[i].ChuvaMaxima
                  /\ resumo[i].MesesComDados = Len(obs)
                  /\ resumo[i].MesesComDados >= 1
                  /\ resumo[i].TotalAnual >= resumo[i].ChuvaMaxima
                  /\ resumo[i].ChuvaMaxima >= 0

C3_Witness ==
    /\ pc = "resumido"
    /\ Coluna(dados_filtrados, "Ano") = <<2020, 2020, 2021>>
    /\ Coluna(dados_filtrados, "Total") = <<10, 20, 5>>
    /\ resumo = << [Ano |-> 2020, TotalAnual |-> 30, ChuvaMaxima |-> 20,
                    MesesComDados |-> 2],
                   [Ano |-> 2021, TotalAnual |-> 5, ChuvaMaxima |-> 5,
                    MesesComDados |-> 1] >>

Ocorrencias(x, v) == Cardinality({i \in 1..Len(x) : x[i] = v})

\* C4: the ranking holds n points: the totals in descending order, the
\* point of rank m with T_emp(m) = (n + 1) / m to binary64 rounding, and
\* T_emp strictly decreasing as the rank grows.
C4_EmpiricalRanking ==
    pc \in {"ordenado", "ajustado", "estimado", "grafico", "tabela"} =>
        LET n == Len(totais_anuais)
        IN  /\ n >= 1
            /\ Len(totais_ordenados) = n
            /\ Len(T_empirico) = n
            /\ \A i \in 1..n : Ocorrencias(totais_ordenados, totais_anuais[i])
                                  = Ocorrencias(totais_anuais, totais_anuais[i])
            /\ \A i \in 1..(n - 1) : totais_ordenados[i] >= totais_ordenados[i + 1]
            /\ \A mm \in 1..n : UlpDist(T_empirico[mm], FloatDivInt(n + 1, mm)) <= 3
            /\ \A mm \in 1..(n - 1) : FloatLess(T_empirico[mm + 1], T_empirico[mm])

C4_Witness ==
    /\ pc = "ordenado"
    /\ totais_anuais = <<1000, 1200, 900, 1500, 1100>>
    /\ totais_ordenados = <<1500, 1200, 1100, 1000, 900>>
    /\ T_empirico[1] = FloatOfInt(6)

ColunasExigidas == {"Data", "Total"}

\* C5: a sheet without the column 'Data' or without the column 'Total'
\* ends the run with False and the printed cause, before the selection
\* prompt, the summary, the images and the workbook.
C5_MissingColumnAborts ==
    (dados # SemDados /\ ~(ColunasExigidas \subseteq arquivo.colunas)) =>
        /\ pc \in {"lido", "fim"}
        /\ pc = "fim" =>
              /\ retorno = "False"
              /\ erro = "O arquivo deve conter colunas 'Data' e 'Total'"
        /\ prompts = 0 /\ dados_filtrados = <<>> /\ resumo = <<>>
        /\ graficos = <<>> /\ workbook = <<>>

C5_Witness ==
    /\ pc = "fim"
    /\ arquivo.colunas = {"Data"}
    /\ retorno = "False"
    /\ erro = "O arquivo deve conter colunas 'Data' e 'Total'"

\* C6: 'todos' returns the data unchanged; a valid selection returns just
\* the observations of the years it names, and the summary that follows
\* holds those years and no others.
C6_SelectionNarrows ==
    pc \in {"selecionado", "resumido"} =>
        LET k == Cardinality(AnosDisponiveis(dados.linhas))
        IN  /\ EhTodos(selecao) =>
                  /\ dados_filtrados = dados.linhas
                  /\ pc = "resumido" => AnosDoResumo = AnosDisponiveis(dados.linhas)
            /\ (~EhTodos(selecao) /\ SelecaoValida(selecao, k)) =>
                  /\ dados_filtrados =
                        SelectSeq(dados.linhas,
                            LAMBDA r : r.Ano \in AnosEscolhidos(selecao, dados.linhas))
                  /\ pc = "resumido" =>
                        AnosDoResumo = AnosEscolhidos(selecao, dados.linhas)

C6_Witness ==
    /\ pc = "resumido"
    /\ selecao = <<"3", ",", "1", ",", "3">>
    /\ AnosDisponiveis(dados.linhas) = {2019, 2020, 2021}
    /\ AnosDoResumo = {2019, 2021}
    /\ Len(dados_filtrados) = 3

Crescente(q) == \A i \in 1..(Len(q) - 1) : q[i] < q[i + 1]

SomaQuadrados(x) == Sum([i \in 1..Len(x) |-> x[i] * x[i]])

\* the mean m and the deviation d reported for the totals x
EstatisticasAmostrais(x, m, d) ==
    LET n == Len(x)
    IN  /\ m[1] * n = Sum(x) * m[2]
        /\ m[2] > 0
        /\ n < 2 => d.nan
        /\ n >= 2 =>
              /\ ~d.nan
              /\ d.quad[2] > 0
              /\ d.quad[1] * (n * (n - 1))
                    = (n * SomaQuadrados(x) - Sum(x) * Sum(x)) * d.quad[2]
        /\ x = <<100, 200, 300>> =>
              (m[1] = 200 * m[2] /\ d.quad[1] = 100 * 100 * d.quad[2])

\* C8: the reported mean is the arithmetic mean and the square of the
\* reported standard deviation is the sum of the squared deviations from
\* the mean divided by n - 1; for 100, 200, 300 they are 200 and 100.
C8_SampleStatistics ==
    /\ totais_anuais # <<>> => EstatisticasAmostrais(totais_anuais, media, desvio_padrao)
    /\ resultados # <<>> =>
          EstatisticasAmostrais(resultados[1].totais_observados,
                                resultados[1].media, resultados[1].desvio_padrao)

C8_Witness ==
    /\ resultados # <<>>
    /\ resultados[1].totais_observados = <<100, 200, 300>>
    /\ resultados[1].media = <<600, 3>>
    /\ resultados[1].desvio_padrao.quad[1] = 10000 * resultados[1].desvio_padrao.quad[2]

\* the column 'Tempo de Recorrencia Empirico (anos)' of the written sheet
ColunaExportada == workbook[4].conteudo[4]

\* C9 as stated: for every rank m the value 1/P(m) of analise_recorrencia
\* equals the value (1/m)*(n+1) written to the sheet 'Dados para Analise',
\* and both sequences have length n.
C9_FormulasEqual ==
    Len(workbook) >= 4 =>
        /\ Len(graficos[1].x_empirico) = Len(resumo)
        /\ Len(ColunaExportada) = Len(resumo)
        /\ \A mm \in 1..Len(resumo) : graficos[1].x_empirico[mm] = ColunaExportada[mm]

\* C9 amended: both sequences have length n and, rank by rank, the two
\* binary64 values are within 4 units in the last place of each other.
C9_FormulasAgreeToRounding ==
    Len(workbook) >= 4 =>
        /\ Len(graficos[1].x_empirico) = Len(resumo)
        /\ Len(ColunaExportada) = Len(resumo)
        /\ \A mm \in 1..Len(resumo) :
              UlpDist(graficos[1].x_empirico[mm], ColunaExportada[mm]) <= 4

C9_Witness ==
    /\ Len(workbook) >= 4
    /\ Len(resumo) = 4
    /\ UlpDist(graficos[1].x_empirico[3], ColunaExportada[3]) = 1
    /\ graficos[1].x_empirico[1] = ColunaExportada[1]

\* the names of the sheets of a complete workbook
NomesDasAbas ==
    <<"Resumo Anual", "Estatisticas", "Analise Recorrencia", "Dados para Analise">>
    \o [i \in 1..Len(resumo) |-> ToString(resumo[i].Ano)]

ImagensSalvas ==
    /\ Len(graficos) = 2
    /\ graficos[1].arquivo = "recorrencia_grafico_recorrencia.png"
    /\ graficos[2].arquivo = "recorrencia_tabela_recorrencia.png"

\* C10: a run ends with True or with False and nothing else; True only
\* after both images were saved and then the whole workbook written; False
\* whenever a step raised; a failed export returns False with both images
\* left on disk.
C10_TwoOutcomes ==
    /\ retorno \in {"nenhum", "True", "False"}
    /\ (pc = "fim") = (retorno # "nenhum")
    /\ retorno = "True" =>
          /\ erro = ""
          /\ ImagensSalvas
          /\ Coluna(workbook, "nome") = NomesDasAbas
    /\ erro # "" => retorno = "False"
    /\ retorno = "False" => erro # ""
    /\ workbook # <<>> => ImagensSalvas
    /\ erro = "exportacao" => (retorno = "False" /\ ImagensSalvas)

C10_Witness ==
    /\ pc = "fim"
    /\ erro = "exportacao"
    /\ retorno = "False"
    /\ ImagensSalvas
    /\ Len(workbook) = 2

=============================================================================
